---------------------------- MODULE Spec2Model ----------------------------
(***************************************************************************)
(* Gossip broadcast nodes of src/03_broadcast.                             *)
(*                                                                         *)
(* Two implementations of the same node are modelled:                      *)
(*   impl = "app"   src/03_broadcast/app.py  (Node, synchronous loop)      *)
(*   impl = "app2"  src/03_broadcast/app2.py on top of src/mstrm (asyncio) *)
(* All nodes of one system run the same implementation; Init picks it.     *)
(*                                                                         *)
(* A message is a record [src, dest, body]; body is the JSON object of the *)
(* source (type, msg_id, in_reply_to, message, messages) with exactly the  *)
(* keys the sender sets.                                                   *)
(***************************************************************************)
EXTENDS Integers, Sequences, FiniteSets, TLC

\* ------------------------------------------------------------------ bounds
\* Values a client may broadcast are 1..MaxValue.
MaxValue == 2
\* Requests the clients send in one run.
MaxRequests == 2
\* Heartbeat ticks that find something to flush, in one run, over all nodes.
MaxTicks == 2
\* Messages the transport drops in one run.
MaxDrops == 1
\* Messages the transport delivers a second time in one run.
MaxDups == 1

NodeOrder == <<"n0", "n1">>
Nodes == {NodeOrder[i] : i \in 1..Len(NodeOrder)}
Clients == {"c0"}
Values == 1..MaxValue
Impls == {"app", "app2"}

VARIABLES
    impl,               \* which implementation the nodes run
    known_messages,     \* Node.known_messages, per node
    pending_broadcasts, \* Node.pending_broadcasts, per node: peer -> set
    peer_order,         \* iteration order of node_ids / pending_broadcasts
    message_id_gen,     \* next value the id generator yields, per node
    pending_replies,    \* app.py: Node.pending_replies, msg_id -> PendingReply
    call_futures,       \* mstrm: Mstrm.call_futures, the ids with a future
    created,            \* app2: _batch_broadcast_one tasks not yet started
    draining,           \* app2: _batch_broadcast_one tasks suspended in drain()
    crashed,            \* nodes whose loop ended with an uncaught exception
    net,                \* node-to-node messages in flight
    requests,           \* client requests sent so far
    ticks,              \* heartbeat ticks so far that had something to flush
    drops,              \* messages dropped so far
    dups,               \* messages delivered a second time so far
    wrote,              \* the lines the last step wrote to stdout, in order
    last,               \* what the last step was
    carried,            \* history: values of the requests a node handled
    tracked,            \* history: the requests sent with a continuation,
                        \*   msg_id -> [dest, messages, fired, dropped];
                        \*   fired counts the runs of the continuation,
                        \*   dropped says the transport dropped the request
    submitted,          \* history: values of the broadcasts the nodes handled
    later,              \* history, per node and request id: the values
                        \*   broadcast at the node after the snapshot of the
                        \*   request was taken
    since,              \* history, per node and peer: the values broadcast
                        \*   at the node after the snapshot of the flush to
                        \*   the peer that was acknowledged last
    pipe,               \* scheduler loop: the lines in the pipe behind the
                        \*   node's standard input, not yet read
    stdin,              \* scheduler loop: the lines read from the pipe and
                        \*   buffered (sys.stdin / the StreamReader)
    pc,                 \* scheduler loop of app.py: where
                        \*   read_message_with_heartbeat stands
    expired             \* scheduler loop: the heartbeat interval has elapsed

nodeVars == <<known_messages, pending_broadcasts, peer_order, message_id_gen,
              pending_replies, call_futures, created, draining, crashed>>
envVars == <<requests, ticks, drops, dups>>
histVars == <<submitted, later, since>>
loopVars == <<pipe, stdin, pc, expired>>
vars == <<impl, nodeVars, net, envVars, wrote, last, carried, tracked, histVars,
          loopVars>>

\* ----------------------------------------------------------------- helpers
Range(s) == {s[i] : i \in 1..Len(s)}

Min(S) == CHOOSE x \in S : \A y \in S : x <= y

\* list(set_of_ints): CPython iterates a set of small non-negative ints in
\* ascending order (hash(i) = i, no collisions below the table size).
RECURSIVE list(_)
list(S) == IF S = {} THEN <<>> ELSE <<Min(S)>> \o list(S \ {Min(S)})

Perms(S) == {s \in [1..Cardinality(S) -> S] : Range(s) = S}

\* dict[k] = v
DictSet(d, k, v) == [x \in DOMAIN d \cup {k} |-> IF x = k THEN v ELSE d[x]]

Peers(n) == Nodes \ {n}

\* node_ids of mstrm: the init message's list without the node itself.
NodeIdList(n) == SelectSeq(NodeOrder, LAMBDA p : p # n)

\* History: request msg went out with a continuation / the continuations of
\* the requests ids have run.
Track(t, msg) ==
    DictSet(t, msg.body.msg_id,
            [dest |-> msg.dest, messages |-> msg.body.messages, fired |-> 0,
             dropped |-> FALSE])

Fire(t, ids) ==
    [i \in DOMAIN t |-> IF i \in ids THEN [t[i] EXCEPT !.fired = @ + 1] ELSE t[i]]

\* ---------------------------------------------------------------- messages
Message(src, dest, body) == [src |-> src, dest |-> dest, body |-> body]

\* app.py bodies (pydantic models): a reply has no msg_id.
Broadcast(msg_id, message) ==
    [type |-> "broadcast", msg_id |-> msg_id, message |-> message]
\* Mutant of BroadcastOk: the reply names no request.
BroadcastOk_unnamed(in_reply_to) == [type |-> "broadcast_ok", in_reply_to |-> 0]
BroadcastOk(in_reply_to) == [type |-> "broadcast_ok", in_reply_to |-> in_reply_to]
BatchBroadcast(msg_id, messages) ==
    [type |-> "batch_broadcast", msg_id |-> msg_id, messages |-> messages]
BatchBroadcastOk(in_reply_to) ==
    [type |-> "batch_broadcast_ok", in_reply_to |-> in_reply_to]
Read(msg_id) == [type |-> "read", msg_id |-> msg_id]
\* Mutant of ReadOk: the reply holds no values.
ReadOk_empty(in_reply_to, messages) ==
    [type |-> "read_ok", in_reply_to |-> in_reply_to, messages |-> <<>>]
ReadOk(in_reply_to, messages) ==
    [type |-> "read_ok", in_reply_to |-> in_reply_to, messages |-> messages]
Topology(msg_id) == [type |-> "topology", msg_id |-> msg_id]
TopologyOk(in_reply_to) == [type |-> "topology_ok", in_reply_to |-> in_reply_to]

\* The classes of app.py an object is an instance of.  The envelope is a
\* Message; only the *Ok bodies derive from InReplyTo.
ClassesOf(cls) ==
    IF cls \in {"init_ok", "broadcast_ok", "batch_broadcast_ok", "read_ok",
                "topology_ok"}
    THEN {cls, "InReplyTo", "BaseModel"}
    ELSE {cls, "BaseModel"}

isinstance(cls, C) == C \in ClassesOf(cls)

IsReply(m) == "in_reply_to" \in DOMAIN m.body

\* The Body union of app.py: the values of "type" Message.parse_raw accepts.
Body == {"init", "init_ok", "broadcast", "broadcast_ok", "batch_broadcast",
         "batch_broadcast_ok", "read", "read_ok", "topology", "topology_ok"}

\* A request of a kind no implementation knows.
Echo(msg_id) == [type |-> "echo", msg_id |-> msg_id]

\* What may arrive at node n from outside the nodes: the requests of a
\* client, which numbers its messages 1, 2, ..., a stray reply (a reply to
\* a request the client's number happens to name), and a request of an
\* unknown kind.
ClientRequests(n) ==
    LET i == requests + 1 IN
    {Message(c, n, Broadcast(i, v)) : c \in Clients, v \in Values}
    \cup {Message(c, n, Read(i)) : c \in Clients}
    \cup {Message(c, n, Topology(i)) : c \in Clients}
    \cup {Message(c, n, BatchBroadcastOk(i)) : c \in Clients}
    \cup {Message(c, n, Echo(i)) : c \in Clients}

\* Values carried by a submit / merge request.
ValuesOf(m) ==
    IF m.body.type = "broadcast" THEN {m.body.message}
    ELSE IF m.body.type = "batch_broadcast" THEN Range(m.body.messages)
    ELSE {}

\* sys.stdout.write of each message of ms, in order; the transport takes the
\* ones addressed to nodes.  netw is the network without the message that is
\* being handled.
Transmit(ms, netw) ==
    /\ wrote' = ms
    /\ net' = netw \cup {m \in Range(ms) : m.dest \in Nodes}

\* The outstanding-request table of node n, whichever implementation runs.
Table(n) == IF impl = "app" THEN DOMAIN pending_replies[n] ELSE call_futures[n]

\* What a step that handles msg at n records about itself.
Handled(n, msg) ==
    [op |-> "handle", node |-> n, msg |-> msg,
     matched |-> IsReply(msg) /\ msg.body.in_reply_to \in Table(n)]

\* ------------------------------------------------ src/03_broadcast/app.py
\* PendingReply(msg, handler, sent_at).  Every handler is the lambda of
\* heartbeat; sent_at is time.time(), stored and never read by any code.
PendingReply(msg) == [msg |-> msg, handler |-> "difference_update"]

\* Node.send(msg, handler): the table after the handler is registered.
send(replies, msg) == DictSet(replies, msg.body.msg_id, PendingReply(msg))

\* The lambda heartbeat registers, applied to the message handle passes it:
\*   self.pending_broadcasts[msg.dest].difference_update(msg.body.messages)
\* It raises (KeyError / AttributeError) unless msg.dest is a peer and the
\* body has a messages field.
handler_raises(n, msg) ==
    \/ msg.dest \notin DOMAIN pending_broadcasts[n]
    \/ "messages" \notin DOMAIN msg.body

handler(n, msg) ==
    [pending_broadcasts[n] EXCEPT ![msg.dest] = @ \ Range(msg.body.messages)]

\* Mutant of known_messages_add: another value is recorded as known.
known_messages_add_other(known, message) == known \cup {message + 1}

\* Mutant of known_messages_add: the value is not recorded as known.
known_messages_add_skipped(known, message) == known

\* self.known_messages.add(message)
known_messages_add(known, message) == known \cup {message}

\* Mutant of known_messages_update: assignment instead of update.
known_messages_update_assign(known, messages) == Range(messages)

\* self.known_messages.update(messages)
known_messages_update(known, messages) == known \cup Range(messages)

\* Mutant of pending_broadcasts_add: the value is queued for no peer.
pending_broadcasts_add_none(pending, message) == pending

\* for node in self.node_ids: self.pending_broadcasts[node].add(message)
pending_broadcasts_add(pending, message) ==
    [p \in DOMAIN pending |-> pending[p] \cup {message}]

\* Message.parse_raw(line) in read_message_with_heartbeat: the body is a
\* union discriminated by "type"; a type outside the union raises
\* ValidationError, which nothing catches on the way out of main.
parse_raw_raises(msg) == msg.body.type \notin Body

\* The loop of main ends with the exception.
main_raises(n, netw) ==
    /\ crashed' = crashed \cup {n}
    /\ Transmit(<<>>, netw)
    /\ UNCHANGED <<known_messages, pending_broadcasts, message_id_gen,
                   pending_replies, carried, tracked>>

\* Node.handle_request: match msg.body.
handle_request(n, msg, netw) ==
    LET body == msg.body
        res(b) == <<Message(msg.dest, msg.src, b)>>
    IN
    /\ UNCHANGED <<pending_replies, message_id_gen, crashed, tracked>>
    /\ CASE body.type = "topology" ->
              /\ Transmit(res(TopologyOk(body.msg_id)), netw)
              /\ UNCHANGED <<known_messages, pending_broadcasts, carried>>
         [] body.type = "broadcast" ->
              /\ known_messages' =
                     [known_messages EXCEPT ![n] =
                         known_messages_add(@, body.message)]
              /\ pending_broadcasts' =
                     [pending_broadcasts EXCEPT ![n] =
                         pending_broadcasts_add(@, body.message)]
              /\ carried' = [carried EXCEPT ![n] = @ \cup ValuesOf(msg)]
              /\ Transmit(res(BroadcastOk(body.msg_id)), netw)
         [] body.type = "read" ->
              /\ Transmit(res(ReadOk(body.msg_id, list(known_messages[n]))),
                          netw)
              /\ UNCHANGED <<known_messages, pending_broadcasts, carried>>
         [] body.type = "batch_broadcast" ->
              /\ known_messages' =
                     [known_messages EXCEPT ![n] =
                         known_messages_update(@, body.messages)]
              /\ carried' = [carried EXCEPT ![n] = @ \cup ValuesOf(msg)]
              /\ Transmit(res(BatchBroadcastOk(body.msg_id)), netw)
              /\ UNCHANGED pending_broadcasts
         [] OTHER ->
              /\ Transmit(<<>>, netw)
              /\ UNCHANGED <<known_messages, pending_broadcasts, carried>>

\* "match msg: case InReplyTo()" in Node.handle: the subject is the envelope.
is_reply(msg) == isinstance("Message", "InReplyTo")

\* Node.handle
handle(n, msg, netw) ==
    IF is_reply(msg)
    THEN /\ Transmit(<<>>, netw)
         /\ UNCHANGED <<known_messages, message_id_gen, carried>>
         /\ IF msg.body.in_reply_to \in DOMAIN pending_replies[n]
            THEN IF handler_raises(n, msg)
                 THEN /\ crashed' = crashed \cup {n}
                      /\ UNCHANGED <<pending_broadcasts, pending_replies>>
                 ELSE /\ pending_broadcasts' =
                             [pending_broadcasts EXCEPT ![n] = handler(n, msg)]
                      /\ pending_replies' =
                             [pending_replies EXCEPT ![n] =
                                 [i \in DOMAIN @ \ {msg.body.in_reply_to} |-> @[i]]]
                      /\ UNCHANGED crashed
                 /\ tracked' = [tracked EXCEPT ![n] =
                                   Fire(@, {msg.body.in_reply_to})]
            ELSE UNCHANGED <<pending_broadcasts, pending_replies, tracked,
                             crashed>>
    ELSE handle_request(n, msg, netw)

\* Node.heartbeat: one BatchBroadcast, with a fresh id and the lambda as its
\* handler, to every peer whose pending set is not empty.
heartbeat(n) ==
    LET targets == SelectSeq(peer_order[n],
                             LAMBDA p : pending_broadcasts[n][p] # {})
        msgs == [i \in 1..Len(targets) |->
                    Message(n, targets[i],
                            BatchBroadcast(message_id_gen[n] + i - 1,
                                           list(pending_broadcasts[n][targets[i]])))]
        RECURSIVE register(_, _, _)
        register(Op(_, _), table, i) ==
            IF i > Len(msgs) THEN table
            ELSE register(Op, Op(table, msgs[i]), i + 1)
    IN
    /\ message_id_gen' = [message_id_gen EXCEPT ![n] = @ + Len(targets)]
    /\ pending_replies' =
           [pending_replies EXCEPT ![n] = register(send, @, 1)]
    /\ tracked' = [tracked EXCEPT ![n] = register(Track, @, 1)]
    /\ Transmit(msgs, net)
    /\ UNCHANGED <<known_messages, pending_broadcasts, crashed, carried>>

\* ------------------------------- src/mstrm/__init__.py, 03_broadcast/app2.py
\* The request kinds app2.main registers with Mstrm.on.
callbacks == {"broadcast", "batch_broadcast", "read"}

\* Mutant of reply: the reply goes out under the id yielded last.
reply_reused(n, original_message, message) ==
    Message(n, original_message.src,
            [type |-> message.type,
             msg_id |-> message_id_gen[n] - 1,
             in_reply_to |-> original_message.body.msg_id])

\* Mstrm.reply(original_message, message): message gets the next msg_id and
\* in_reply_to, and goes to the sender of the original.
reply(n, original_message, message) ==
    Message(n, original_message.src,
            IF "messages" \in DOMAIN message
            THEN [type |-> message.type, messages |-> message.messages,
                  msg_id |-> message_id_gen[n],
                  in_reply_to |-> original_message.body.msg_id]
            ELSE [type |-> message.type,
                  msg_id |-> message_id_gen[n],
                  in_reply_to |-> original_message.body.msg_id])

\* Node.on_broadcast
on_broadcast(n, msg, netw) ==
    /\ known_messages' =
           [known_messages EXCEPT ![n] = @ \cup {msg.body.message}]
    /\ pending_broadcasts' =
           [pending_broadcasts EXCEPT ![n] =
               [p \in DOMAIN @ |->
                   IF p \in Range(peer_order[n])
                   THEN @[p] \cup {msg.body.message} ELSE @[p]]]
    /\ carried' = [carried EXCEPT ![n] = @ \cup ValuesOf(msg)]
    /\ Transmit(<<reply(n, msg, [type |-> "broadcast_ok"])>>, netw)
    /\ message_id_gen' = [message_id_gen EXCEPT ![n] = @ + 1]

\* Mutant of on_batch_broadcast: the merged values are queued for the peers.
on_batch_broadcast_fanout(n, msg, netw) ==
    /\ known_messages' =
           [known_messages EXCEPT ![n] = @ \cup Range(msg.body.messages)]
    /\ pending_broadcasts' =
           [pending_broadcasts EXCEPT ![n] =
               [p \in DOMAIN @ |-> @[p] \cup Range(msg.body.messages)]]
    /\ carried' = [carried EXCEPT ![n] = @ \cup ValuesOf(msg)]
    /\ Transmit(<<reply(n, msg, [type |-> "batch_broadcast_ok"])>>, netw)
    /\ message_id_gen' = [message_id_gen EXCEPT ![n] = @ + 1]

\* Node.on_batch_broadcast
on_batch_broadcast(n, msg, netw) ==
    /\ known_messages' =
           [known_messages EXCEPT ![n] = @ \cup Range(msg.body.messages)]
    /\ carried' = [carried EXCEPT ![n] = @ \cup ValuesOf(msg)]
    /\ Transmit(<<reply(n, msg, [type |-> "batch_broadcast_ok"])>>, netw)
    /\ message_id_gen' = [message_id_gen EXCEPT ![n] = @ + 1]
    /\ UNCHANGED pending_broadcasts

\* Node.on_read
on_read(n, msg, netw) ==
    /\ Transmit(<<reply(n, msg, [type |-> "read_ok",
                                 messages |-> list(known_messages[n])])>>, netw)
    /\ message_id_gen' = [message_id_gen EXCEPT ![n] = @ + 1]
    /\ UNCHANGED <<known_messages, pending_broadcasts, carried>>

\* Mutant of future_known: the membership test is left out.
future_known_unchecked(n, body) == TRUE

\* "message.body["in_reply_to"] in self.call_futures" in Mstrm.spin_forever
future_known(n, body) == body.in_reply_to \in call_futures[n]

\* One iteration of Mstrm.spin_forever: a reply resolves and removes its
\* future (nothing awaits the future: Node._batch_broadcast_one awaits the
\* coroutine call(), which returns the future), then the message goes to the
\* callback of its type, if there is one.  self.call_futures[k] of a k that
\* is not in the dict raises KeyError, which ends the loop.
spin_forever(n, msg, netw) ==
    LET body == msg.body
        hit == "in_reply_to" \in DOMAIN body /\ future_known(n, body)
    IN
    IF hit /\ body.in_reply_to \notin call_futures[n]
    THEN /\ crashed' = crashed \cup {n}
         /\ Transmit(<<>>, netw)
         /\ UNCHANGED <<known_messages, pending_broadcasts, message_id_gen,
                        call_futures, carried, tracked>>
    ELSE /\ call_futures' =
                [call_futures EXCEPT ![n] =
                    IF hit THEN @ \ {body.in_reply_to} ELSE @]
         /\ UNCHANGED <<crashed, tracked>>
         /\ IF body.type \in callbacks
            THEN CASE body.type = "broadcast" -> on_broadcast(n, msg, netw)
                   [] body.type = "batch_broadcast" ->
                          on_batch_broadcast(n, msg, netw)
                   [] body.type = "read" -> on_read(n, msg, netw)
            ELSE /\ Transmit(<<>>, netw)
                 /\ UNCHANGED <<known_messages, pending_broadcasts,
                                message_id_gen, carried>>

\* Node.batch_broadcast_to_all, up to its await: one _batch_broadcast_one
\* task per peer, each with a snapshot list(self.pending_broadcasts[node]).
\* A task with an empty snapshot does nothing and is left out.  The tasks of
\* the previous tick have started by now (the loop runs ready tasks in FIFO
\* order before a 0.5 s timer can expire).
batch_broadcast_to_all(n) ==
    LET node_ids == peer_order[n]
        all == [i \in 1..Len(node_ids) |->
                   [node |-> node_ids[i],
                    messages |-> list(pending_broadcasts[n][node_ids[i]])]]
    IN
    /\ created[n] = <<>>
    /\ created' = [created EXCEPT ![n] =
                      SelectSeq(all, LAMBDA t : t.messages # <<>>)]
    /\ Transmit(<<>>, net)
    /\ UNCHANGED <<known_messages, pending_broadcasts, message_id_gen,
                   call_futures, draining, crashed, carried, tracked>>

\* The statements of _batch_broadcast_one after "await self.send" inside
\* Mstrm.call: the future is registered, call returns it, and the snapshot is
\* subtracted at once.  ts is the set of tasks [node, messages, msg_id] that
\* get there in this step.
after_send_futures(n, ts) == call_futures[n] \cup {t.msg_id : t \in ts}

after_send_pending(n, ts) ==
    [p \in DOMAIN pending_broadcasts[n] |->
        pending_broadcasts[n][p]
            \ UNION {Range(t.messages) : t \in {u \in ts : u.node = p}}]

\* The tasks created by one batch_broadcast_to_all run back to back: each
\* takes the next msg_id and writes its request (Mstrm.call, Mstrm.send); the
\* first k get through writer.drain() without suspending and finish, the
\* others stay suspended there (the pipe is full from then on).
_batch_broadcast_one(n, k) ==
    LET ts == created[n]
        sent == [i \in 1..Len(ts) |->
                    [node |-> ts[i].node, messages |-> ts[i].messages,
                     msg_id |-> message_id_gen[n] + i - 1]]
        msgs == [i \in 1..Len(ts) |->
                    Message(n, sent[i].node,
                            BatchBroadcast(sent[i].msg_id, sent[i].messages))]
        done == {sent[i] : i \in 1..k}
        RECURSIVE register(_, _)
        register(t, i) ==
            IF i > Len(msgs) THEN t ELSE register(Track(t, msgs[i]), i + 1)
    IN
    /\ ts # <<>>
    /\ k \in 0..Len(ts)
    /\ created' = [created EXCEPT ![n] = <<>>]
    /\ message_id_gen' = [message_id_gen EXCEPT ![n] = @ + Len(ts)]
    /\ Transmit(msgs, net)
    /\ call_futures' = [call_futures EXCEPT ![n] = after_send_futures(n, done)]
    /\ pending_broadcasts' =
           [pending_broadcasts EXCEPT ![n] = after_send_pending(n, done)]
    /\ tracked' = [tracked EXCEPT ![n] =
                      Fire(register(@, 1), {t.msg_id : t \in done})]
    /\ draining' = [draining EXCEPT ![n] =
                       @ \cup {sent[i] : i \in (k + 1)..Len(ts)}]
    /\ UNCHANGED <<known_messages, crashed, carried>>

\* A task suspended in writer.drain() resumes.
_batch_broadcast_one_resume(n, t) ==
    /\ t \in draining[n]
    /\ draining' = [draining EXCEPT ![n] = @ \ {t}]
    /\ call_futures' = [call_futures EXCEPT ![n] = after_send_futures(n, {t})]
    /\ pending_broadcasts' =
           [pending_broadcasts EXCEPT ![n] = after_send_pending(n, {t})]
    /\ tracked' = [tracked EXCEPT ![n] = Fire(@, {t.msg_id})]
    /\ Transmit(<<>>, net)
    /\ UNCHANGED <<known_messages, message_id_gen, created, crashed, carried>>

\* ------------------------------------------------------------ the system
\* After construction: Node.__init__ of app.py; Mstrm.create and
\* Node.__init__ of app2.py (create has replied to init and topology, so the
\* generator has yielded 1 and 2).
Init ==
    /\ impl \in Impls
    /\ known_messages = [n \in Nodes |-> {}]
    /\ pending_broadcasts = [n \in Nodes |-> [p \in Peers(n) |-> {}]]
    /\ peer_order \in [Nodes -> UNION {Perms(Peers(n)) : n \in Nodes}]
    /\ \A n \in Nodes :
           IF impl = "app" THEN peer_order[n] \in Perms(Peers(n))
           ELSE peer_order[n] = NodeIdList(n)
    /\ message_id_gen = [n \in Nodes |-> IF impl = "app" THEN 1 ELSE 3]
    /\ pending_replies = [n \in Nodes |-> <<>>]
    /\ call_futures = [n \in Nodes |-> {}]
    /\ created = [n \in Nodes |-> <<>>]
    /\ draining = [n \in Nodes |-> {}]
    /\ crashed = {}
    /\ net = {}
    /\ requests = 0
    /\ ticks = 0
    /\ drops = 0
    /\ dups = 0
    /\ wrote = <<>>
    /\ last = [op |-> "init"]
    /\ carried = [n \in Nodes |-> {}]
    /\ tracked = [n \in Nodes |-> <<>>]
    /\ submitted = {}
    /\ later = [n \in Nodes |-> <<>>]
    /\ since = [n \in Nodes |-> [p \in Peers(n) |-> {}]]
    /\ pipe = <<>>
    /\ stdin = <<>>
    /\ pc = "select"
    /\ expired = FALSE

\* History of a step in which node n takes msg: a broadcast adds its value
\* to the submitted values and to the values broadcast after each snapshot;
\* the reply of peer p to a tracked request that is in n's table makes that
\* request the flush to p acknowledged last.
History(n, msg) ==
    LET body == msg.body
        id == body.in_reply_to
        acks == /\ IsReply(msg)
                /\ id \in Table(n)
                /\ id \in DOMAIN tracked[n]
                /\ msg.src = tracked[n][id].dest
    IN
    /\ submitted' = IF body.type = "broadcast"
                    THEN submitted \cup {body.message} ELSE submitted
    /\ later' =
           IF body.type = "broadcast"
           THEN [later EXCEPT ![n] = [i \in DOMAIN @ |-> @[i] \cup {body.message}]]
           ELSE later
    /\ since' =
           IF body.type = "broadcast"
           THEN [since EXCEPT ![n] = [p \in DOMAIN @ |-> @[p] \cup {body.message}]]
           ELSE IF acks
           THEN [since EXCEPT ![n][msg.src] = later[n][id]]
           ELSE since

\* History of a step in which node n writes the flushes ms: the values
\* pending for the peer that the snapshot of a flush does not hold were
\* broadcast after the snapshot was taken.
Snapshots(n, ms) ==
    /\ later' =
           [later EXCEPT ![n] =
               [i \in DOMAIN @ \cup {m.body.msg_id : m \in Range(ms)} |->
                   IF i \in DOMAIN @ THEN @[i]
                   ELSE LET m == CHOOSE x \in Range(ms) : x.body.msg_id = i
                        IN pending_broadcasts[n][m.dest] \ Range(m.body.messages)]]
    /\ UNCHANGED <<submitted, since>>

\* The loop of node n takes msg off its input and handles it.
Receive(n, msg, netw) ==
    /\ n \notin crashed
    /\ last' = Handled(n, msg)
    /\ UNCHANGED <<impl, peer_order>>
    /\ IF impl = "app"
       THEN /\ IF parse_raw_raises(msg)
               THEN main_raises(n, netw) /\ UNCHANGED histVars
               ELSE handle(n, msg, netw) /\ History(n, msg)
            /\ UNCHANGED <<call_futures, created, draining>>
       ELSE /\ spin_forever(n, msg, netw)
            /\ History(n, msg)
            /\ UNCHANGED <<pending_replies, created, draining>>

ClientRequest(n, msg) ==
    /\ requests < MaxRequests
    /\ msg \in ClientRequests(n)
    /\ requests' = requests + 1
    /\ Receive(n, msg, net)
    /\ UNCHANGED <<ticks, drops, dups, loopVars>>

Deliver(msg) ==
    /\ msg \in net
    /\ Receive(msg.dest, msg, net \ {msg})
    /\ UNCHANGED <<envVars, loopVars>>

\* The transport delivers msg and keeps a copy in flight.
DeliverDup(msg) ==
    /\ msg \in net
    /\ dups < MaxDups
    /\ dups' = dups + 1
    /\ Receive(msg.dest, msg, net)
    /\ UNCHANGED <<requests, ticks, drops, loopVars>>

Drop(msg) ==
    /\ msg \in net
    /\ drops < MaxDrops
    /\ drops' = drops + 1
    /\ net' = net \ {msg}
    /\ wrote' = <<>>
    /\ last' = [op |-> "drop", msg |-> msg]
    /\ tracked' =
           IF msg.body.type = "batch_broadcast"
           THEN [tracked EXCEPT ![msg.src][msg.body.msg_id].dropped = TRUE]
           ELSE tracked
    /\ UNCHANGED <<impl, nodeVars, requests, ticks, dups, carried, histVars,
                   loopVars>>

\* Node n has values pending for some peer.
Flushes(n) ==
    \E p \in DOMAIN pending_broadcasts[n] : pending_broadcasts[n][p] # {}

\* What node n does when its heartbeat is due.
HeartbeatTick(n) ==
    /\ n \notin crashed
    /\ Flushes(n) => ticks < MaxTicks
    /\ ticks' = IF Flushes(n) THEN ticks + 1 ELSE ticks
    /\ last' = [op |-> "heartbeat", node |-> n]
    /\ UNCHANGED <<impl, peer_order, requests, drops, dups>>
    /\ IF impl = "app"
       THEN heartbeat(n) /\ UNCHANGED <<call_futures, created, draining>>
       ELSE batch_broadcast_to_all(n) /\ UNCHANGED pending_replies
    /\ Snapshots(n, wrote')

\* The 0.5 s timer of node n expires.
Heartbeat(n) == HeartbeatTick(n) /\ UNCHANGED loopVars

StartTasks(n) ==
    /\ impl = "app2"
    /\ n \notin crashed
    /\ \E k \in 0..Len(created[n]) : _batch_broadcast_one(n, k)
    /\ last' = [op |-> "flush_send", node |-> n]
    /\ Snapshots(n, wrote')
    /\ UNCHANGED <<impl, peer_order, pending_replies, envVars, loopVars>>

ResumeTask(n) ==
    /\ impl = "app2"
    /\ n \notin crashed
    /\ \E t \in draining[n] :
           /\ _batch_broadcast_one_resume(n, t)
           /\ last' = [op |-> "flush_resume", node |-> n, task |-> t]
    /\ UNCHANGED <<impl, peer_order, pending_replies, envVars, histVars,
                   loopVars>>

Next ==
    \/ \E n \in Nodes : \E msg \in ClientRequests(n) : ClientRequest(n, msg)
    \/ \E msg \in net : Deliver(msg)
    \/ \E msg \in net : DeliverDup(msg)
    \/ \E msg \in net : Drop(msg)
    \/ \E n \in Nodes : Heartbeat(n)
    \/ \E n \in Nodes : StartTasks(n)
    \/ \E n \in Nodes : ResumeTask(n)

Spec == Init /\ [][Next]_vars

\* The scheduling the code gives: a node's timer keeps expiring, its loop
\* keeps taking the messages that are there for it, and its tasks keep
\* running.  Nothing obliges the transport not to drop a message.
Fairness ==
    \A n \in Nodes :
        /\ WF_vars(Heartbeat(n))
        /\ WF_vars(StartTasks(n))
        /\ WF_vars(ResumeTask(n))
        /\ WF_vars(\E msg \in net : msg.dest = n /\ Deliver(msg))

FairSpec == Spec /\ Fairness

\* ------------------------------------------------------ the scheduler loops
\* One node with its standard input: what arrives goes into the pipe, and the
\* loop of the implementation decides when a line is handled and when the
\* heartbeat runs.
LoopNode == NodeOrder[1]

\* A step of the loop that changes nothing in the node.
Idle(op) ==
    /\ wrote' = <<>>
    /\ last' = [op |-> op]
    /\ UNCHANGED <<impl, nodeVars, net, carried, tracked, histVars>>

\* A client writes a line to the standard input of the node.
Arrive(msg) ==
    /\ requests < MaxRequests
    /\ msg \in ClientRequests(LoopNode)
    /\ requests' = requests + 1
    /\ pipe' = Append(pipe, msg)
    /\ Idle("arrive")
    /\ UNCHANGED <<ticks, drops, dups, stdin, pc, expired>>

\* More than the heartbeat interval has passed since the last heartbeat.
TimePasses ==
    /\ ~expired
    /\ expired' = TRUE
    /\ Idle("time")
    /\ UNCHANGED <<envVars, pipe, stdin, pc>>

\* select.select([sys.stdin], [], [], 0): the descriptor is readable when the
\* pipe holds data; what sys.stdin has buffered does not count.
select == pipe # <<>>

\* sys.stdin.readline(): the next line of the buffer of sys.stdin; an empty
\* buffer is first filled by one read, which takes all the pipe holds (the
\* lines are short of the 8192 bytes a read asks for).
readline == IF stdin # <<>> THEN Head(stdin) ELSE Head(pipe)

after_readline ==
    /\ stdin' = IF stdin # <<>> THEN Tail(stdin) ELSE Tail(pipe)
    /\ pipe' = IF stdin # <<>> THEN pipe ELSE <<>>

\* read_message_with_heartbeat, first half of an iteration, and the loop of
\* main: a line is read and handled when select reports the descriptor
\* readable.
AppSelect ==
    /\ impl = "app"
    /\ LoopNode \notin crashed
    /\ pc = "select"
    /\ pc' = "timer"
    /\ IF select
       THEN Receive(LoopNode, readline, net) /\ after_readline
       ELSE Idle("select") /\ UNCHANGED <<pipe, stdin>>
    /\ UNCHANGED <<envVars, expired>>

\* read_message_with_heartbeat, second half of an iteration, and the loop of
\* main: the heartbeat runs when the interval has elapsed; then the 10 ms
\* sleep.
AppTimer ==
    /\ impl = "app"
    /\ LoopNode \notin crashed
    /\ pc = "timer"
    /\ pc' = "select"
    /\ IF expired
       THEN HeartbeatTick(LoopNode) /\ expired' = FALSE
       ELSE Idle("sleep") /\ UNCHANGED <<envVars, expired>>
    /\ UNCHANGED <<pipe, stdin>>

\* asyncio: the event loop finds the read pipe readable and feeds all it
\* holds to the StreamReader (connect_stdin_stdout).
data_received ==
    /\ impl = "app2"
    /\ pipe # <<>>
    /\ stdin' = stdin \o pipe
    /\ pipe' = <<>>
    /\ Idle("data_received")
    /\ UNCHANGED <<envVars, pc, expired>>

\* read_messages and Mstrm.spin_forever: reader.readline() returns the next
\* line the StreamReader holds, and the line is handled.
read_messages ==
    /\ impl = "app2"
    /\ stdin # <<>>
    /\ Receive(LoopNode, Head(stdin), net)
    /\ stdin' = Tail(stdin)
    /\ UNCHANGED <<envVars, pipe, pc, expired>>

\* Node.heartbeat of app2.py: asyncio.sleep(delay) is over, the task
\* batch_broadcast_to_all is created and runs.
sleep_done ==
    /\ impl = "app2"
    /\ expired
    /\ expired' = FALSE
    /\ HeartbeatTick(LoopNode)
    /\ UNCHANGED <<pipe, stdin, pc>>

LoopNext ==
    \/ \E msg \in ClientRequests(LoopNode) : Arrive(msg)
    \/ TimePasses
    \/ AppSelect
    \/ AppTimer
    \/ data_received
    \/ read_messages
    \/ sleep_done
    \/ StartTasks(LoopNode)
    \/ ResumeTask(LoopNode)

LoopSpec == Init /\ [][LoopNext]_vars

\* Time passes, the loop of app.py keeps iterating, and the event loop of
\* asyncio keeps running what is ready.  Nothing obliges a client to write
\* another line.
LoopFairness ==
    /\ WF_vars(TimePasses)
    /\ WF_vars(AppSelect)
    /\ WF_vars(AppTimer)
    /\ WF_vars(data_received)
    /\ WF_vars(read_messages)
    /\ WF_vars(sleep_done)
    /\ WF_vars(StartTasks(LoopNode))
    /\ WF_vars(ResumeTask(LoopNode))

FairLoopSpec == LoopSpec /\ LoopFairness

\* ------------------------------------------------------------- properties
\* The step that led to this state handled a reply at node n.
HandledReply(n) ==
    /\ last.op = "handle"
    /\ last.node = n
    /\ IsReply(last.msg)

\* The step that led to this state handled, at node n, the reply of the peer
\* a tracked request of n went to, while that request was in n's table.
HandledAck(n) ==
    /\ HandledReply(n)
    /\ last.matched
    /\ last.msg.body.in_reply_to \in DOMAIN tracked[n]
    /\ last.msg.src = tracked[n][last.msg.body.in_reply_to].dest

\* The values of the request the reply handled last answers.
AckedSnapshot(n) == Range(tracked[n][last.msg.body.in_reply_to].messages)

\* No node has anything left to send and nothing is in flight.
Quiescent ==
    /\ net = {}
    /\ \A n \in Nodes :
           /\ created[n] = <<>>
           /\ draining[n] = {}
           /\ \A p \in DOMAIN pending_broadcasts[n] :
                  pending_broadcasts[n][p] = {}

\* Ids a node can allocate within the bounds.
Ids == 1..(2 + MaxRequests + MaxDups + MaxTicks)

\* C1: a value broadcast at one node reaches every node, also when the
\* transport drops flushes.  As a final result: once the nodes are quiescent
\* (nothing pending for any peer, no flush task alive, nothing in flight),
\* from where no node sends anything again unless a client asks, every node
\* knows every value any node knows.
C1_EventualConvergence ==
    Quiescent => \A n, m \in Nodes : known_messages[n] = known_messages[m]

\* C2: a value leaves pending_broadcasts[p] only in the step that handles
\* the acknowledgment of peer p for a request whose snapshot held the value.
C2_RemovedOnlyByAck ==
    [][\A n \in Nodes : \A p \in DOMAIN pending_broadcasts[n] :
          \A v \in pending_broadcasts[n][p] \ pending_broadcasts'[n][p] :
              /\ HandledAck(n)'
              /\ last'.msg.src = p
              /\ v \in AckedSnapshot(n)']_vars

\* C3: when the acknowledgment of a flush is handled while the peer's
\* pending set holds values that were added after the snapshot was taken,
\* the step removes the values of the snapshot and only those.
C3_SnapshotSubtract ==
    [][\A n \in Nodes :
          LET p == last'.msg.src IN
          (HandledAck(n)' /\ pending_broadcasts[n][p] \ AckedSnapshot(n)' # {})
          => pending_broadcasts'[n][p] =
                 pending_broadcasts[n][p] \ AckedSnapshot(n)']_vars

\* Node n has written the request id again in the last step.
Resent(n, id) ==
    \E i \in 1..Len(wrote) :
        /\ wrote[i].src = n
        /\ wrote[i].body.type = "batch_broadcast"
        /\ wrote[i].body.msg_id = id

\* C4: a tracked request that is still in the table some time after it was
\* sent is written again with the same id, unless its reply is matched first
\* (or the node has stopped, or the run is cut off: ticks = MaxTicks stops
\* the timers that flush).
C4_Retry ==
    \A n \in Nodes : \A id \in Ids :
        (id \in Table(n) /\ ~Resent(n, id))
            ~> (\/ Resent(n, id)
                \/ id \notin Table(n)
                \/ n \in crashed
                \/ ticks = MaxTicks)

\* C5: the continuation of a tracked request never runs twice, and it has
\* run exactly once when the acknowledgment of the request has been handled.
C5_ContinuationOnce ==
    \A n \in Nodes :
        /\ \A id \in DOMAIN tracked[n] : tracked[n][id].fired <= 1
        /\ HandledAck(n)
               => tracked[n][last.msg.body.in_reply_to].fired = 1

\* C6: the step that handles a reply naming an entry of the table removes
\* that entry.
C6_MatchedReplyRemovesEntry ==
    \A n \in Nodes :
        HandledAck(n) => last.msg.body.in_reply_to \notin Table(n)

\* C7: a step that handles a reply whose in_reply_to names no entry of the
\* outstanding-request table changes neither known_messages nor any pending
\* set nor the table, writes no message, and leaves the node running.
C7_UnmatchedReplyIgnored ==
    [][\A n \in Nodes :
          (HandledReply(n)' /\ ~last'.matched)
          => /\ known_messages' = known_messages
             /\ pending_broadcasts' = pending_broadcasts
             /\ pending_replies' = pending_replies
             /\ call_futures' = call_futures
             /\ wrote' = <<>>
             /\ n \notin crashed']_vars

\* A node that holds values, pending values and an outstanding request has
\* just handled a reply that names none of its requests.
C7_Witness ==
    \E n \in Nodes :
        /\ HandledReply(n)
        /\ ~last.matched
        /\ Table(n) # {}
        /\ known_messages[n] # {}
        /\ n \notin crashed

\* C8: whatever requests a node has handled, in whatever order and however
\* often repeated, its known_messages is exactly the set of the values those
\* broadcast and batch_broadcast requests carried.
C8_IdempotentMerge ==
    \A n \in Nodes : known_messages[n] = carried[n]

\* A node that knows two values has just handled a batch_broadcast for the
\* second time (its earlier reply to it is still in flight): every value in
\* it was known already.
C8_Witness ==
    \E n \in Nodes :
        /\ last.op = "handle"
        /\ last.node = n
        /\ last.msg.body.type = "batch_broadcast"
        /\ Cardinality(known_messages[n]) >= 2
        /\ \E r \in net :
               /\ r # wrote[1]
               /\ r.src = n
               /\ r.dest = last.msg.src
               /\ IsReply(r)
               /\ r.body.in_reply_to = last.msg.body.msg_id

\* C9: no step of any kind removes a value from a node's known_messages.
C9_KnownOnlyGrows ==
    [][\A n \in Nodes : known_messages[n] \subseteq known_messages'[n]]_vars

\* A node that already knew a value has handled a batch_broadcast with
\* another one and knows both.
C9_Witness ==
    \E n \in Nodes :
        /\ last.op = "handle"
        /\ last.node = n
        /\ last.msg.body.type = "batch_broadcast"
        /\ known_messages[n] \ Range(last.msg.body.messages) # {}

\* C10: every value pending for a peer is a value the node knows.
C10_PendingSubsetKnown ==
    \A n \in Nodes : \A p \in DOMAIN pending_broadcasts[n] :
        pending_broadcasts[n][p] \subseteq known_messages[n]

\* A node has a value pending for a peer.
C10_Witness ==
    \E n \in Nodes : \E p \in DOMAIN pending_broadcasts[n] :
        /\ pending_broadcasts[n][p] # {}
        /\ last.op = "handle"
        /\ last.node = n
        /\ last.msg.body.type = "broadcast"

\* The transport dropped an earlier request of n to the same peer with the
\* same values as the request whose acknowledgment was handled last.
RetryAcked(n) ==
    \E i \in DOMAIN tracked[n] :
        /\ i < last.msg.body.in_reply_to
        /\ tracked[n][i].dest = last.msg.src
        /\ tracked[n][i].dropped
        /\ Range(tracked[n][i].messages) = AckedSnapshot(n)

\* C11: when a flush of a value set to a peer was dropped, a later flush of
\* the same set is delivered, and its acknowledgment is handled while the
\* peer's pending set holds no value from outside the set (nothing new was
\* broadcast at the node), then the peer knows the set and the step leaves
\* the pending set of the peer empty.
C11_PendingDrains ==
    [][\A n \in Nodes :
          LET p == last'.msg.src IN
          (/\ HandledAck(n)'
           /\ RetryAcked(n)'
           /\ pending_broadcasts[n][p] \subseteq AckedSnapshot(n)')
          => /\ AckedSnapshot(n)' \subseteq known_messages'[p]
             /\ pending_broadcasts'[n][p] = {}]_vars

\* C12: the pending set of a peer is never larger than the set of the
\* distinct values broadcast at the node since the snapshot of the flush to
\* the peer that was acknowledged last, however many heartbeats have run.
C12_PendingBounded ==
    \A n \in Nodes : \A p \in DOMAIN pending_broadcasts[n] :
        Cardinality(pending_broadcasts[n][p]) <= Cardinality(since[n][p])

\* The request kinds node n has a handler for: the cases of
\* Node.handle_request of app.py, the callbacks of app2.py.
HasHandler(msg) ==
    IF impl = "app"
    THEN msg.body.type \in {"topology", "broadcast", "read", "batch_broadcast"}
    ELSE msg.body.type \in callbacks

\* C13: a step in which a node handles a broadcast, batch_broadcast, read or
\* topology request writes exactly one message: a reply to the sender of the
\* request, of the kind that answers it, whose in_reply_to is the request's
\* msg_id.
C13_OneReply ==
    [][\A n \in Nodes :
          (/\ last'.op = "handle"
           /\ last'.node = n
           /\ HasHandler(last'.msg)
           /\ n \notin crashed')
          => /\ Len(wrote') = 1
             /\ wrote'[1].src = n
             /\ wrote'[1].dest = last'.msg.src
             /\ wrote'[1].body.type = last'.msg.body.type \o "_ok"
             /\ wrote'[1].body.in_reply_to = last'.msg.body.msg_id]_vars

\* A node has replied to a batch_broadcast of a peer, and before that to a
\* request of a client.
C13_Witness ==
    \E n \in Nodes :
        /\ last.op = "handle"
        /\ last.node = n
        /\ last.msg.body.type = "batch_broadcast"
        /\ last.msg.src \in Nodes
        /\ wrote # <<>>
        /\ wrote[1].dest = last.msg.src
        /\ carried[n] \ Range(last.msg.body.messages) # {}

\* C14: the step in which a node handles broadcast(v) puts v into
\* known_messages and into the pending set of every peer (the sender, if it
\* is a peer, may be left out) and writes the broadcast_ok and nothing else,
\* no flush to a peer; and a read handled at a node returns every value the
\* node has handled a request for before.
C14_Submit ==
    [][\A n \in Nodes :
          (last'.op = "handle" /\ last'.node = n /\ n \notin crashed')
          => LET msg == last'.msg IN
             /\ msg.body.type = "broadcast"
                => /\ msg.body.message \in known_messages'[n]
                   /\ \A p \in DOMAIN pending_broadcasts[n] \ {msg.src} :
                          msg.body.message \in pending_broadcasts'[n][p]
                   /\ Len(wrote') = 1
                   /\ wrote'[1].dest = msg.src
                   /\ wrote'[1].body.type = "broadcast_ok"
             /\ msg.body.type = "read"
                => /\ Len(wrote') = 1
                   /\ wrote'[1].body.type = "read_ok"
                   /\ carried[n] \subseteq Range(wrote'[1].body.messages)]_vars

\* A node has handled a read after a broadcast, with nothing flushed to any
\* peer yet: the value is in the reply although no peer knows it.
C14_Witness ==
    \E n \in Nodes :
        /\ last.op = "handle"
        /\ last.node = n
        /\ last.msg.body.type = "read"
        /\ carried[n] # {}
        /\ \A p \in DOMAIN pending_broadcasts[n] :
               /\ pending_broadcasts[n][p] = carried[n]
               /\ known_messages[p] = {}
        /\ Range(wrote[1].body.messages) = carried[n]

\* C15: the step in which a node handles a read writes one read_ok to the
\* sender whose messages are the node's known_messages, each value once, and
\* changes neither known_messages nor any pending set nor the
\* outstanding-request table.
C15_ReadFrame ==
    [][\A n \in Nodes :
          (/\ last'.op = "handle"
           /\ last'.node = n
           /\ last'.msg.body.type = "read"
           /\ n \notin crashed')
          => /\ Len(wrote') = 1
             /\ wrote'[1].dest = last'.msg.src
             /\ wrote'[1].body.type = "read_ok"
             /\ Range(wrote'[1].body.messages) = known_messages[n]
             /\ Len(wrote'[1].body.messages) = Cardinality(known_messages[n])
             /\ known_messages' = known_messages
             /\ pending_broadcasts' = pending_broadcasts
             /\ pending_replies' = pending_replies
             /\ call_futures' = call_futures]_vars

\* A node that knows a value, has values pending and a request outstanding
\* has handled a read.
C15_Witness ==
    \E n \in Nodes :
        /\ last.op = "handle"
        /\ last.node = n
        /\ last.msg.body.type = "read"
        /\ known_messages[n] # {}
        /\ Table(n) # {}
        /\ \E p \in DOMAIN pending_broadcasts[n] : pending_broadcasts[n][p] # {}

\* C16: the step in which a node handles a batch_broadcast leaves every
\* pending set as it was and writes the batch_broadcast_ok to the sender and
\* nothing else; and a step that adds a value to a pending set of a node is
\* that node handling a broadcast.
C16_MergeNoFanOut ==
    [][\A n \in Nodes :
          /\ (/\ last'.op = "handle"
              /\ last'.node = n
              /\ last'.msg.body.type = "batch_broadcast"
              /\ n \notin crashed')
             => /\ pending_broadcasts' = pending_broadcasts
                /\ Len(wrote') = 1
                /\ wrote'[1].dest = last'.msg.src
                /\ wrote'[1].body.type = "batch_broadcast_ok"
          /\ (\E p \in DOMAIN pending_broadcasts[n] :
                  ~(pending_broadcasts'[n][p] \subseteq pending_broadcasts[n][p]))
             => /\ last'.op = "handle"
                /\ last'.node = n
                /\ last'.msg.body.type = "broadcast"]_vars

\* A node has learnt a value from a batch_broadcast of a peer and has
\* nothing pending for any peer.
C16_Witness ==
    \E n \in Nodes :
        /\ last.op = "handle"
        /\ last.node = n
        /\ last.msg.body.type = "batch_broadcast"
        /\ last.msg.src \in Nodes
        /\ Range(last.msg.body.messages) \subseteq known_messages[n]
        /\ \A p \in DOMAIN pending_broadcasts[n] : pending_broadcasts[n][p] = {}

\* The values node n took as the snapshot for peer p at the tick whose
\* flushes the next step writes: app.py writes them in the heartbeat itself,
\* app2.py in the tasks the tick created.
TickSnapshot(n, p) ==
    IF impl = "app" THEN pending_broadcasts[n][p]
    ELSE UNION {Range(created[n][i].messages) :
                    i \in {j \in 1..Len(created[n]) : created[n][j].node = p}}

\* C17: the step in which node n writes the flushes of a heartbeat tick
\* writes, for every peer whose pending set held values at the tick, exactly
\* one batch_broadcast to that peer with exactly those values, which is in
\* the outstanding-request table after the step; it writes nothing else,
\* nothing to a peer whose set was empty and nothing to n itself; and it
\* changes neither known_messages nor any pending set.
C17_FlushAll ==
    [][\A n \in Nodes :
          (/\ \/ impl = "app" /\ last'.op = "heartbeat"
              \/ last'.op = "flush_send"
           /\ last'.node = n)
          => /\ \A p \in DOMAIN pending_broadcasts[n] :
                    Cardinality({i \in 1..Len(wrote') : wrote'[i].dest = p})
                        = IF TickSnapshot(n, p) # {} THEN 1 ELSE 0
             /\ \A i \in 1..Len(wrote') :
                    /\ wrote'[i].src = n
                    /\ wrote'[i].dest \in DOMAIN pending_broadcasts[n] \ {n}
                    /\ wrote'[i].body.type = "batch_broadcast"
                    /\ Range(wrote'[i].body.messages)
                           = TickSnapshot(n, wrote'[i].dest)
                    /\ wrote'[i].body.msg_id \in Table(n)'
             /\ known_messages' = known_messages
             /\ pending_broadcasts' = pending_broadcasts]_vars

\* The msg_ids node n put on the messages it wrote in the last step.
Allocated(n) ==
    {wrote[i].body.msg_id :
        i \in {j \in 1..Len(wrote) :
                  wrote[j].src = n /\ "msg_id" \in DOMAIN wrote[j].body}}

\* C18: the ids a node allocates are strictly increasing and never reused.
\* The messages a step of node n writes carry, in the order written,
\* increasing ids none of which the generator had yielded before the step,
\* the generator never goes back, no id of the table or of a request sent
\* earlier is an id the generator will still yield, and a request written
\* takes an id that has no entry in the outstanding-request table.
C18_IdsIncrease ==
    [][\A n \in Nodes :
          /\ message_id_gen'[n] >= message_id_gen[n]
          /\ \A i \in 1..Len(wrote') :
                 (wrote'[i].src = n /\ "msg_id" \in DOMAIN wrote'[i].body)
                 => /\ wrote'[i].body.msg_id >= message_id_gen[n]
                    /\ wrote'[i].body.msg_id < message_id_gen'[n]
                    /\ wrote'[i].body.msg_id \notin Table(n)
                    /\ wrote'[i].body.msg_id \notin DOMAIN tracked[n]
                    /\ \A j \in 1..(i - 1) :
                           (wrote'[j].src = n /\ "msg_id" \in DOMAIN wrote'[j].body)
                           => wrote'[j].body.msg_id < wrote'[i].body.msg_id
          /\ \A id \in Table(n)' \cup DOMAIN tracked'[n] :
                 id < message_id_gen'[n]]_vars

\* A node with a request outstanding has written a message under a new id.
C18_Witness ==
    \E n \in Nodes :
        /\ Allocated(n) # {}
        /\ Table(n) \ Allocated(n) # {}
        /\ \A id \in Table(n) \ Allocated(n) : \A a \in Allocated(n) : id < a

\* C19: the step in which a node takes a request of a kind it has no
\* handler for writes nothing, changes neither known_messages nor any
\* pending set, and leaves the node running.
C19_UnknownKindIgnored ==
    [][\A n \in Nodes :
          (/\ last'.op = "handle"
           /\ last'.node = n
           /\ ~IsReply(last'.msg)
           /\ ~HasHandler(last'.msg))
          => /\ wrote' = <<>>
             /\ known_messages' = known_messages
             /\ pending_broadcasts' = pending_broadcasts
             /\ n \notin crashed']_vars

\* C20: every value a node knows, every value pending for a peer, every
\* value in the snapshot of a flush task and every value of a
\* batch_broadcast in flight was carried by a broadcast some node handled.
C20_Integrity ==
    /\ \A n \in Nodes :
           /\ known_messages[n] \subseteq submitted
           /\ \A p \in DOMAIN pending_broadcasts[n] :
                  pending_broadcasts[n][p] \subseteq submitted
           /\ \A i \in 1..Len(created[n]) :
                  Range(created[n][i].messages) \subseteq submitted
           /\ \A t \in draining[n] : Range(t.messages) \subseteq submitted
    /\ \A m \in net :
           m.body.type = "batch_broadcast"
           => Range(m.body.messages) \subseteq submitted

\* Both values have been broadcast, one node knows both, and a
\* batch_broadcast that carries a value is in flight.
C20_Witness ==
    /\ submitted = Values
    /\ \E n \in Nodes : known_messages[n] = Values
    /\ \E m \in net : m.body.type = "batch_broadcast" /\ m.body.messages # <<>>

\* The lines the loop of LoopNode has taken off its standard input.
Taken == requests - Len(pipe) - Len(stdin)

\* C21: in the loop of a node, a heartbeat that is due runs although lines
\* keep arriving, and every line that arrives is handled, unless the node
\* has stopped (or the run is cut off: ticks = MaxTicks stops the heartbeats
\* that flush).
C21_NotStarved ==
    /\ expired ~> (~expired \/ LoopNode \in crashed \/ ticks = MaxTicks)
    /\ \A i \in 1..MaxRequests :
           (requests >= i)
               ~> (Taken >= i \/ LoopNode \in crashed \/ ticks = MaxTicks)

=============================================================================
